---- MODULE Spec2Model ----
(***************************************************************************)
(* Peer client identification (peer_manager/client.rs).                    *)
(*                                                                         *)
(* An identify event delivers an agent-version string and a protocol-      *)
(* version string.  client_from_agent_version classifies the agent string  *)
(* into (kind, version, os_version); Client::from_identify_info builds the *)
(* Client record from it.  Strings are TLA+ strings and are parsed         *)
(* character by character, as str::split and str::parse do.                *)
(***************************************************************************)
EXTENDS Integers, Sequences, FiniteSets, TLC

VARIABLES
    agent_fields, \* the '/'-delimited fields the peer put into its agent string
    info,      \* the IdentifyInfo at hand: [agent_version, protocol_version]
    client,    \* the Client record held for the peer
    ret,       \* Option of the last (kind, version, os_version) returned
    pc,        \* "start" | "classified" | "identified"
    \* the peer registry
    registry,  \* peer identity -> Option of the Client record held for it
    history,   \* the registry operations performed so far, oldest first
    got,       \* Option of what the last operation, a get, returned
    \* one registry entry under concurrent callers
    lock,      \* "free", or the caller holding the entry's lock
    entry,     \* the stored entry: [present] and the fields of its record
    tpc,       \* caller -> where it is in its call
    local,     \* caller -> what it holds: the fields read, the result
    commits,   \* the writers, in the order their records were stored
    \* gossip topics
    topic,     \* the GossipTopic at hand: [kind, encoding, fork_digest]
    rendered,  \* Option of the string topic_string gave for it
    candidate, \* a string received as a topic
    parsed,    \* Option of what parse_topic returned for the last string given
    \* the message codec
    message,      \* the PubsubMessage to send: [kind, payload]
    encoding,     \* the GossipEncoding it is sent with
    topic_hashes, \* the topics a received message carries
    sent,         \* Option of the Result of encode
    wire,         \* Option of the bytes received
    decoded,      \* Option of the Result of decode
    \* the BLS signature wrapper
    build,        \* "debug" or "release": what an integer overflow does
    msg,          \* the message signed
    domain,       \* the domain it is signed in
    keypair,      \* the key pair in use
    signature,    \* Option of the Signature under test
    sig_bytes,    \* Option of the bytes given to from_bytes
    from_ret,     \* Option of what from_bytes returned
    verdict,      \* Option of [entry, accepts]: the last verification
    panicked,     \* whether a call has panicked
    raw_parses,   \* how many times from_bytes had its bytes parsed as a raw signature
    \* the as_static_str attribute macro
    args,         \* the attribute's arguments: [variant_list, style]
    the_enum,     \* the annotated enum: its variants' names in declaration order
    style,        \* the Style chosen from the arguments
    impl_variant_list, \* whether variants_as_static_str is to be generated
    variants,     \* the representations pushed so far
    arms,         \* the match arms of as_static_str generated so far
    variant_list, \* Option of the array variants_as_static_str returns
    mpc           \* where the expansion is

clientVars   == <<agent_fields, info, client, ret, pc>>
registryVars == <<registry, history, got>>
sharedVars   == <<lock, entry, tpc, local, commits>>

topicVars    == <<topic, rendered, candidate, parsed>>

codecVars    == <<message, encoding, topic_hashes, sent, wire, decoded>>

sigVars      == <<build, msg, domain, keypair, signature, sig_bytes, from_ret, verdict,
                 panicked, raw_parses>>

macroVars    == <<args, the_enum, style, impl_variant_list, variants, arms, variant_list, mpc>>

vars == <<clientVars, registryVars, sharedVars, topicVars, codecVars, sigVars, macroVars>>

\* the variables a component leaves alone
outsideClient   == <<registryVars, sharedVars, topicVars, codecVars, sigVars, macroVars>>
outsideRegistry == <<clientVars, sharedVars, topicVars, codecVars, sigVars, macroVars>>
outsideShared   == <<clientVars, registryVars, topicVars, codecVars, sigVars, macroVars>>
outsideTopic    == <<clientVars, registryVars, sharedVars, codecVars, sigVars, macroVars>>
outsideCodec    == <<clientVars, registryVars, sharedVars, topicVars, sigVars, macroVars>>
outsideSig      == <<clientVars, registryVars, sharedVars, topicVars, codecVars, macroVars>>
outsideMacro    == <<clientVars, registryVars, sharedVars, topicVars, codecVars, sigVars>>

\* a component that takes no part in a specification rests
ClientIdle ==
    /\ agent_fields = <<>>
    /\ info = <<>>
    /\ client = <<>>
    /\ ret = <<>>
    /\ pc = "idle"

RegistryIdle ==
    /\ registry = <<>>
    /\ history = <<>>
    /\ got = <<>>

SharedIdle ==
    /\ lock = "free"
    /\ entry = <<>>
    /\ tpc = <<>>
    /\ local = <<>>
    /\ commits = <<>>

TopicIdle ==
    /\ topic = <<>>
    /\ rendered = <<>>
    /\ candidate = ""
    /\ parsed = <<>>

CodecIdle ==
    /\ message = <<>>
    /\ encoding = ""
    /\ topic_hashes = <<>>
    /\ sent = <<>>
    /\ wire = <<>>
    /\ decoded = <<>>

SigIdle ==
    /\ build = ""
    /\ msg = <<>>
    /\ domain = 0
    /\ keypair = ""
    /\ signature = <<>>
    /\ sig_bytes = <<>>
    /\ from_ret = <<>>
    /\ verdict = <<>>
    /\ panicked = FALSE
    /\ raw_parses = 0

MacroIdle ==
    /\ args = <<>>
    /\ the_enum = <<>>
    /\ style = ""
    /\ impl_variant_list = FALSE
    /\ variants = <<>>
    /\ arms = <<>>
    /\ variant_list = <<>>
    /\ mpc = "idle"

(***************************************************************************)
(* Bounds of the model.                                                    *)
(***************************************************************************)
\* largest number of '/'-delimited fields of a generated agent string
MaxFields == 4

(***************************************************************************)
(* Option<T>                                                               *)
(***************************************************************************)
None == <<>>
Some(x) == <<x>>

(***************************************************************************)
(* str::split(pat): the substrings of s between the non-overlapping        *)
(* matches of pat, found left to right; never empty ("" splits to <<"">>). *)
(***************************************************************************)
RECURSIVE SplitFrom(_, _, _, _)
SplitFrom(s, pat, start, i) ==
    IF i + Len(pat) - 1 > Len(s)
    THEN << SubSeq(s, start, Len(s)) >>
    ELSE IF SubSeq(s, i, i + Len(pat) - 1) = pat
         THEN << SubSeq(s, start, i - 1) >>
                  \o SplitFrom(s, pat, i + Len(pat), i + Len(pat))
         ELSE SplitFrom(s, pat, start, i + 1)

split(s, pat) == SplitFrom(s, pat, 1, 1)

(***************************************************************************)
(* str::parse::<i32>(): an optional sign, then one or more decimal digits, *)
(* nothing else; a value outside i32 is an error.                          *)
(***************************************************************************)
I32Max == 2147483647
I32Min == -I32Max - 1

\* the least a with a * 10 >= x
CeilDiv10(x) == (x \div 10) + (IF x % 10 = 0 THEN 0 ELSE 1)

DigitOf == ("0" :> 0) @@ ("1" :> 1) @@ ("2" :> 2) @@ ("3" :> 3) @@ ("4" :> 4)
        @@ ("5" :> 5) @@ ("6" :> 6) @@ ("7" :> 7) @@ ("8" :> 8) @@ ("9" :> 9)

Err == [ok |-> FALSE, val |-> 0]
Ok(v) == [ok |-> TRUE, val |-> v]

\* digits i..Len(s) accumulated onto acc; negative numbers accumulate downwards
RECURSIVE ParseDigits(_, _, _, _)
ParseDigits(s, i, acc, neg) ==
    IF i > Len(s) THEN Ok(acc)
    ELSE LET c == SubSeq(s, i, i) IN
         IF c \notin DOMAIN DigitOf THEN Err
         ELSE LET d == DigitOf[c] IN
              IF neg
              THEN IF acc < CeilDiv10(I32Min + d)
                   THEN Err
                   ELSE ParseDigits(s, i + 1, acc * 10 - d, neg)
              ELSE IF acc > (I32Max - d) \div 10
                   THEN Err
                   ELSE ParseDigits(s, i + 1, acc * 10 + d, neg)

parse_i32(s) ==
    IF Len(s) = 0 THEN Err
    ELSE LET c == SubSeq(s, 1, 1) IN
         IF c \in {"+", "-"}
         THEN IF Len(s) = 1 THEN Err ELSE ParseDigits(s, 2, 0, c = "-")
         ELSE ParseDigits(s, 1, 0, FALSE)

(***************************************************************************)
(* ClientKind                                                              *)
(***************************************************************************)
ClientKind == {"Lighthouse", "LighthouseOld", "Nimbus", "Teku", "Prysm",
               "PrysmOld", "Lodestar", "Unknown"}

\* the Prysm builds at alpha.24 that are still treated as old
ExcludedHashes == {
      "245c18784eda370ea3218e8704651edad763978d",
      "9219dc77ff6d99c18a618d5d86dc12279576238e",
      "1de230110d6bfc544fb753928d3e8d32284d54d8",
      "b6607fac25414d99d1e3c90dc002feba14dfb783",
      "e6277ec536c3891024e230d3439728987978392e",
      "0961fef727413165b418028f45eea9816cfc929d",
      "366b98ac83b38b38527dac6275e4b5ac270298cc",
      "c2425e81d79a17f19e831b383ae68cfcfdaf253e",
      "8f2950d374bb4e0e0fcfa954c7931116552f52e6",
      "f4a68643439f3db856ca6e027f6afdf6b63f0cf7",
      "c1a7c65e0516aaa33ffe1cd9169b24d1805b1a65",
      "7fd2536d54f924a675b5b3ba4f9fc6bd51fe88ac",
      "0e6797d80d7d4dfaa381c93a0b52fbb902e231af",
      "b2b4c2660df92600f535abb19c896c89e11fd740",
      "787857c38b26bd6fdb25b06bec33b5726f04b2f1",
      "1cc21ed3c42cf4ccf2c5b2740378fa4b32a61a8e",
      "7588e491ab1c77afb9d589681d72adf841c46eaa",
      "afce363e00f875a3ed86ea18f1d005234f5625cd",
      "7de3ce0b31a0c5bec47010a60d45d1ea0328a572",
      "6e6b871cc157550351878ac7c7750505bc76c725",
      "2349012bd007fdd6f7cd6e1f1ed2eb05adf6cc6e",
      "b4c0a89d49c7bc7d20aedb69a09494ae0b61572e",
      "d368156a08a282085255c4e1a916903a400f492d",
      "63149a3dc3787e73380d8f807767d2b5124960c0",
      "fbe088625aae04b6616250d46452fc0471b4324e",
      "ecbab20bad63829ef4bd1ecc15f2c5085b145fea",
      "381b5be0fc917d326b482670f672c398cc10c665",
      "6803f3308a8994b1f9f00b53872c3a49c4a80977",
      "60558b7970a9aefafc79407410cc0ecc97b61b40",
      "7854b91ae035b47e754104d2206420ebb9588ee0",
      "c9c7cc7b9367fc71bc144237cd597eba3bfc9a09",
      "b538f5073d765093b6affc8dd983ef4130b82375",
      "3ed7b23ed7e937d31bd2975c34d8df6970e8d6a4",
      "c2b94d04ed27f908c4f3bb2850b132c50da63219",
      "3316516d22cfbed13bf0f0b3b31295065acf68f6",
      "12c1daaf2b32d4b2fd58737681bf877196971d61",
      "f09620c9f609b36eb8b48bfa0224c6bfa72922a6",
      "e47e7067c4ff973e6bf64c98cbc049e36c5da4cc" }

\* Iterator::next() on a split: the n-th item, if there is one
HasField(sp, n) == Len(sp) >= n

(***************************************************************************)
(* The branches of client_from_agent_version.  agent_split is the agent    *)
(* string split on '/'; agent_split[1] selected the branch.  Each returns  *)
(* <<kind, version, os_version>>.                                          *)
(***************************************************************************)
\* LighthouseBranch with the patch threshold exclusive (> 10 for >= 10)
LighthouseBranchPatchAbove(agent_split) ==
    LET version    == IF HasField(agent_split, 2) THEN agent_split[2] ELSE "unknown"
        os_version == IF HasField(agent_split, 2) /\ HasField(agent_split, 3)
                      THEN agent_split[3] ELSE "unknown"
        version_parts       == split(version, "-")[1]
        version_parts_split == split(version_parts, ".")
        part2_i == parse_i32(version_parts_split[2])
        part3_i == parse_i32(version_parts_split[3])
        current ==
            /\ HasField(agent_split, 2)
            /\ version_parts_split[1] = "v0"
            /\ HasField(version_parts_split, 2)
            /\ part2_i.ok
            /\ \/ part2_i.val > 2
               \/ /\ part2_i.val = 2
                  /\ HasField(version_parts_split, 3)
                  /\ part3_i.ok
                  /\ part3_i.val > 10
    IN  << IF current THEN "Lighthouse" ELSE "LighthouseOld", version, os_version >>

\* LighthouseBranch starting from the current kind: only a parsed number below
\* the thresholds demotes, so an unparsable minor or patch stays current
LighthouseBranchUnparsedCurrent(agent_split) ==
    LET version    == IF HasField(agent_split, 2) THEN agent_split[2] ELSE "unknown"
        os_version == IF HasField(agent_split, 2) /\ HasField(agent_split, 3)
                      THEN agent_split[3] ELSE "unknown"
        version_parts       == split(version, "-")[1]
        version_parts_split == split(version_parts, ".")
        part2_i == parse_i32(version_parts_split[2])
        part3_i == parse_i32(version_parts_split[3])
        current ==
            /\ HasField(agent_split, 2)
            /\ version_parts_split[1] = "v0"
            /\ HasField(version_parts_split, 2)
            /\ \/ ~part2_i.ok
               \/ part2_i.val > 2
               \/ /\ part2_i.val = 2
                  /\ HasField(version_parts_split, 3)
                  /\ (~part3_i.ok \/ part3_i.val >= 10)
    IN  << IF current THEN "Lighthouse" ELSE "LighthouseOld", version, os_version >>

\* Some("Lighthouse")
LighthouseBranch(agent_split) ==
    LET version    == IF HasField(agent_split, 2) THEN agent_split[2] ELSE "unknown"
        os_version == IF HasField(agent_split, 2) /\ HasField(agent_split, 3)
                      THEN agent_split[3] ELSE "unknown"
        version_parts       == split(version, "-")[1]
        version_parts_split == split(version_parts, ".")
        part2_i == parse_i32(version_parts_split[2])
        part3_i == parse_i32(version_parts_split[3])
        current ==
            /\ HasField(agent_split, 2)
            /\ version_parts_split[1] = "v0"
            /\ HasField(version_parts_split, 2)
            /\ part2_i.ok
            /\ \/ part2_i.val > 2
               \/ /\ part2_i.val = 2
                  /\ HasField(version_parts_split, 3)
                  /\ part3_i.ok
                  /\ part3_i.val >= 10
    IN  << IF current THEN "Lighthouse" ELSE "LighthouseOld", version, os_version >>

\* TekuBranch without the skipped field (version read from the 2nd field)
TekuBranchNoSkip(agent_split) ==
    LET version    == IF HasField(agent_split, 2) THEN agent_split[2] ELSE "unknown"
        os_version == IF HasField(agent_split, 2) /\ HasField(agent_split, 3)
                      THEN agent_split[3] ELSE "unknown"
    IN  << "Teku", version, os_version >>

\* Some("teku"): the field after the marker is skipped
TekuBranch(agent_split) ==
    LET version    == IF HasField(agent_split, 2) /\ HasField(agent_split, 3)
                      THEN agent_split[3] ELSE "unknown"
        os_version == IF HasField(agent_split, 2) /\ HasField(agent_split, 3)
                         /\ HasField(agent_split, 4)
                      THEN agent_split[4] ELSE "unknown"
    IN  << "Teku", version, os_version >>

\* Some("github.com")
GithubBranch(agent_split) == << "PrysmOld", "unknown", "unknown" >>

\* PrysmBranch with the threshold build always current (exclusions dropped)
PrysmBranchNoExclusion(agent_split) ==
    LET version    == IF HasField(agent_split, 2) /\ HasField(agent_split, 3)
                      THEN agent_split[3] ELSE "unknown"
        os_version == IF HasField(agent_split, 2) /\ HasField(agent_split, 3)
                         /\ HasField(agent_split, 4)
                      THEN agent_split[4] ELSE "unknown"
        alpha_split == split(agent_split[2], "-alpha.")
        a_v == parse_i32(alpha_split[2])
        current ==
            /\ HasField(agent_split, 2)
            /\ HasField(alpha_split, 2)
            /\ a_v.ok
            /\ a_v.val >= 24
    IN  << IF current THEN "Prysm" ELSE "PrysmOld", version, os_version >>

\* PrysmBranch with the exclusions applied to every build from the threshold up
PrysmBranchAlwaysExcludes(agent_split) ==
    LET version    == IF HasField(agent_split, 2) /\ HasField(agent_split, 3)
                      THEN agent_split[3] ELSE "unknown"
        os_version == IF HasField(agent_split, 2) /\ HasField(agent_split, 3)
                         /\ HasField(agent_split, 4)
                      THEN agent_split[4] ELSE "unknown"
        alpha_split == split(agent_split[2], "-alpha.")
        a_v == parse_i32(alpha_split[2])
        current ==
            /\ HasField(agent_split, 2)
            /\ HasField(alpha_split, 2)
            /\ a_v.ok
            /\ a_v.val >= 24
            /\ version \notin ExcludedHashes
    IN  << IF current THEN "Prysm" ELSE "PrysmOld", version, os_version >>

\* PrysmBranch reading version and OS as the simple families do
PrysmBranchVersionSecond(agent_split) ==
    LET version    == IF HasField(agent_split, 2) THEN agent_split[2] ELSE "unknown"
        os_version == IF HasField(agent_split, 2) /\ HasField(agent_split, 3)
                      THEN agent_split[3] ELSE "unknown"
        alpha_split == split(agent_split[2], "-alpha.")
        a_v == parse_i32(alpha_split[2])
        current ==
            /\ HasField(agent_split, 2)
            /\ HasField(alpha_split, 2)
            /\ a_v.ok
            /\ \/ a_v.val > 24
               \/ a_v.val = 24 /\ version \notin ExcludedHashes
    IN  << IF current THEN "Prysm" ELSE "PrysmOld", version, os_version >>

\* Some("Prysm")
PrysmBranch(agent_split) ==
    LET version    == IF HasField(agent_split, 2) /\ HasField(agent_split, 3)
                      THEN agent_split[3] ELSE "unknown"
        os_version == IF HasField(agent_split, 2) /\ HasField(agent_split, 3)
                         /\ HasField(agent_split, 4)
                      THEN agent_split[4] ELSE "unknown"
        alpha_split == split(agent_split[2], "-alpha.")
        a_v == parse_i32(alpha_split[2])
        current ==
            /\ HasField(agent_split, 2)
            /\ HasField(alpha_split, 2)
            /\ a_v.ok
            /\ \/ a_v.val > 24
               \/ a_v.val = 24 /\ version \notin ExcludedHashes
    IN  << IF current THEN "Prysm" ELSE "PrysmOld", version, os_version >>

\* NimbusBranch skipping the field after the marker, as the teku branch does
NimbusBranchSkip(agent_split) ==
    LET version    == IF HasField(agent_split, 2) /\ HasField(agent_split, 3)
                      THEN agent_split[3] ELSE "unknown"
        os_version == IF HasField(agent_split, 2) /\ HasField(agent_split, 3)
                         /\ HasField(agent_split, 4)
                      THEN agent_split[4] ELSE "unknown"
    IN  << "Nimbus", version, os_version >>

\* Some("nim-libp2p")
NimbusBranch(agent_split) ==
    LET version    == IF HasField(agent_split, 2) THEN agent_split[2] ELSE "unknown"
        os_version == IF HasField(agent_split, 2) /\ HasField(agent_split, 3)
                      THEN agent_split[3] ELSE "unknown"
    IN  << "Nimbus", version, os_version >>

\* Some("js-libp2p")
LodestarBranch(agent_split) ==
    LET version    == IF HasField(agent_split, 2) THEN agent_split[2] ELSE "unknown"
        os_version == IF HasField(agent_split, 2) /\ HasField(agent_split, 3)
                      THEN agent_split[3] ELSE "unknown"
    IN  << "Lodestar", version, os_version >>

\* UnknownBranch handing back the 2nd field as the version
UnknownBranchKeepsVersion(agent_split) ==
    << "Unknown",
       IF HasField(agent_split, 2) THEN agent_split[2] ELSE "unknown",
       "unknown" >>

\* _
UnknownBranch(agent_split) == << "Unknown", "unknown", "unknown" >>

\* client_from_agent_version also taking the lower-case marker "lighthouse"
client_from_agent_version_any_case(agent_version) ==
    LET agent_split == split(agent_version, "/") IN
    CASE agent_split[1] \in {"Lighthouse", "lighthouse"}
                                       -> LighthouseBranch(agent_split)
      [] agent_split[1] = "teku"       -> TekuBranch(agent_split)
      [] agent_split[1] = "github.com" -> GithubBranch(agent_split)
      [] agent_split[1] = "Prysm"      -> PrysmBranch(agent_split)
      [] agent_split[1] = "nim-libp2p" -> NimbusBranch(agent_split)
      [] agent_split[1] = "js-libp2p"  -> LodestarBranch(agent_split)
      [] OTHER                         -> UnknownBranch(agent_split)

client_from_agent_version(agent_version) ==
    LET agent_split == split(agent_version, "/") IN
    CASE agent_split[1] = "Lighthouse" -> LighthouseBranch(agent_split)
      [] agent_split[1] = "teku"       -> TekuBranch(agent_split)
      [] agent_split[1] = "github.com" -> GithubBranch(agent_split)
      [] agent_split[1] = "Prysm"      -> PrysmBranch(agent_split)
      [] agent_split[1] = "nim-libp2p" -> NimbusBranch(agent_split)
      [] agent_split[1] = "js-libp2p"  -> LodestarBranch(agent_split)
      [] OTHER                         -> UnknownBranch(agent_split)

(***************************************************************************)
(* Client                                                                  *)
(***************************************************************************)
\* impl Default for Client
DefaultClient ==
    [ kind             |-> "Unknown",
      version          |-> "unknown",
      os_version       |-> "unknown",
      protocol_version |-> "unknown",
      agent_string     |-> None ]

\* from_identify_info dropping the raw agent string
from_identify_info_no_agent_string(i) ==
    LET r == client_from_agent_version(i.agent_version) IN
    [ kind             |-> r[1],
      version          |-> r[2],
      os_version       |-> r[3],
      protocol_version |-> i.protocol_version,
      agent_string     |-> None ]

\* from_identify_info leaving the protocol version at its default
from_identify_info_default_protocol(i) ==
    LET r == client_from_agent_version(i.agent_version) IN
    [ kind             |-> r[1],
      version          |-> r[2],
      os_version       |-> r[3],
      protocol_version |-> "unknown",
      agent_string     |-> Some(i.agent_version) ]

\* Client::from_identify_info
from_identify_info(i) ==
    LET r == client_from_agent_version(i.agent_version) IN
    [ kind             |-> r[1],
      version          |-> r[2],
      os_version       |-> r[3],
      protocol_version |-> i.protocol_version,
      agent_string     |-> Some(i.agent_version) ]

(***************************************************************************)
(* The identify inputs the model draws from: agent strings of up to        *)
(* MaxFields '/'-delimited fields.                                         *)
(***************************************************************************)
FirstFields ==
    { "Lighthouse", "teku", "github.com", "Prysm", "nim-libp2p", "js-libp2p",
      "gobbledygook", "lighthouse", "" }

VersionFields ==
    { "v0.2.9", "v0.2.10", "v0.3.0", "v0.1.12", "v0.2", "v1.2.3",
      "v0.x.10", "v0.2.x", "v0.3.x", "v0.2.9-10",
      "v1.0.0-alpha.23", "v1.0.0-alpha.24", "v1.0.0-alpha.25",
      "v1.0.0-alpha.+24", "v1.0.0-alpha.x", "v1.0.0-alpha.99999999999",
      "v1.0.0-beta.0", "v1.0.0", "1.0", "" }

\* a 40-character hash that differs from an excluded one in its last digit
OtherHash == "245c18784eda370ea3218e8704651edad763978e"

HashFields ==
    { "245c18784eda370ea3218e8704651edad763978d",
      "e47e7067c4ff973e6bf64c98cbc049e36c5da4cc",
      OtherHash, "linux-x86_64", "" }

OsFields == {"linux-x86_64", ""}

FieldsAt(n) == IF n = 2 THEN VersionFields
               ELSE IF n = 3 THEN HashFields
               ELSE OsFields

RECURSIVE FieldSeqsOfLen(_)
FieldSeqsOfLen(n) ==
    IF n = 1 THEN { << f >> : f \in FirstFields }
    ELSE { Append(fs, f) : fs \in FieldSeqsOfLen(n - 1), f \in FieldsAt(n) }

\* Prysm agent strings carrying each of the excluded hashes
PrysmHashFieldSeqs ==
    { << "Prysm", v, h >> : v \in VersionFields, h \in ExcludedHashes }
    \cup { << "Prysm", v, h, "linux-x86_64" >> :
              v \in VersionFields, h \in ExcludedHashes }

FieldSeqs == UNION { FieldSeqsOfLen(n) : n \in 1..MaxFields } \cup PrysmHashFieldSeqs

\* the agent string: the fields separated by '/'
RECURSIVE join(_)
join(fs) == IF Len(fs) = 1 THEN fs[1]
            ELSE fs[1] \o "/" \o join(Tail(fs))

ProtocolVersions == {"ipfs/0.1.0", "unknown"}

(***************************************************************************)
(* The state machine: an identify event arrives for a peer whose record is *)
(* still the default one; the agent string is classified and the record    *)
(* replaced by the one built from the event.                               *)
(***************************************************************************)
Init ==
    /\ agent_fields \in FieldSeqs
    /\ \E protocol_version \in ProtocolVersions :
          info = [ agent_version    |-> join(agent_fields),
                   protocol_version |-> protocol_version ]
    /\ client = DefaultClient
    /\ ret = None
    /\ pc = "start"
    /\ RegistryIdle
    /\ SharedIdle
    /\ TopicIdle
    /\ CodecIdle
    /\ SigIdle
    /\ MacroIdle

\* a call of client_from_agent_version on the agent string at hand
ClientFromAgentVersion ==
    /\ pc = "start"
    /\ ret' = Some(client_from_agent_version(info.agent_version))
    /\ pc' = "classified"
    /\ UNCHANGED <<agent_fields, info, client>>
    /\ UNCHANGED outsideClient

\* a call of Client::from_identify_info on the identify info at hand; it calls
\* client_from_agent_version itself
FromIdentifyInfo ==
    /\ pc \in {"start", "classified"}
    /\ ret' = Some(client_from_agent_version(info.agent_version))
    /\ client' = from_identify_info(info)
    /\ pc' = "identified"
    /\ UNCHANGED <<agent_fields, info>>
    /\ UNCHANGED outsideClient

Next == ClientFromAgentVersion \/ FromIdentifyInfo

Spec == Init /\ [][Next]_vars

(***************************************************************************)
(* What the claims speak of: the returned triple and the fields of the     *)
(* agent string that was classified.                                       *)
(***************************************************************************)
Returned  == ret /= None
Kind      == ret[1][1]
Version   == ret[1][2]
OsVersion == ret[1][3]

Fields == agent_fields

\* the fields are those str::split('/') finds in the agent string
FieldsAreTheSplit == split(info.agent_version, "/") = agent_fields
NumFields == Len(Fields)
\* the n-th '/'-delimited field, "unknown" when absent
FieldOr(n) == IF NumFields >= n THEN Fields[n] ELSE "unknown"

\* the text after the first "-alpha." of the 2nd field, as a number
AlphaSplit  == split(Fields[2], "-alpha.")
AlphaParsed == NumFields >= 2 /\ Len(AlphaSplit) >= 2 /\ parse_i32(AlphaSplit[2]).ok
AlphaNumber == parse_i32(AlphaSplit[2]).val

C2_PrysmBetaIsCurrent ==
    (/\ Returned
     /\ Fields[1] = "Prysm"
     /\ NumFields >= 2
     /\ LET beta_split == split(Fields[2], "-beta.") IN
            /\ Len(beta_split) >= 2
            /\ parse_i32(beta_split[2]).ok
            /\ parse_i32(beta_split[2]).val >= 0)
    => Kind = "Prysm"

(***************************************************************************)
(* C3                                                                      *)
(***************************************************************************)
\* C3: for first field "Prysm" and alpha build number 24, a commit-hash field
\* that is one of the excluded hashes gives PrysmOld, and a commit-hash field
\* that is not in the excluded list gives Prysm.
C3_ThresholdDecidedByExclusionList ==
    (Returned /\ Fields[1] = "Prysm" /\ AlphaParsed /\ AlphaNumber = 24
        /\ NumFields >= 3)
    => /\ Fields[3] \in ExcludedHashes => Kind = "PrysmOld"
       /\ Fields[3] \notin ExcludedHashes => Kind = "Prysm"

C3_ExcludedHashAtThreshold ==
    /\ Returned
    /\ Fields[1] = "Prysm"
    /\ AlphaParsed /\ AlphaNumber = 24
    /\ NumFields >= 3
    /\ Fields[3] = "e47e7067c4ff973e6bf64c98cbc049e36c5da4cc"
    /\ Kind = "PrysmOld"

(***************************************************************************)
(* C4                                                                      *)
(***************************************************************************)
\* C4: for first field "Prysm" with an alpha build number n that parses,
\* n > 24 gives Prysm and n < 24 gives PrysmOld, whatever the commit-hash
\* field is.
C4_AwayFromThresholdHashIgnored ==
    (Returned /\ Fields[1] = "Prysm" /\ AlphaParsed)
    => /\ AlphaNumber > 24 => Kind = "Prysm"
       /\ AlphaNumber < 24 => Kind = "PrysmOld"

C4_ExcludedHashAboveThreshold ==
    /\ Returned
    /\ Fields[1] = "Prysm"
    /\ AlphaParsed /\ AlphaNumber > 24
    /\ NumFields >= 3
    /\ Fields[3] \in ExcludedHashes
    /\ Kind = "Prysm"

(***************************************************************************)
(* C5                                                                      *)
(***************************************************************************)
\* the version field's part before the first '-', split on '.'
LhParts == split(split(Fields[2], "-")[1], ".")
LhMinor == parse_i32(LhParts[2])
LhPatch == parse_i32(LhParts[3])

\* C5: for first field "Lighthouse" the kind is Lighthouse if and only if the
\* first component is "v0", the second parses as m, and m > 2 or (m = 2 and the
\* third parses as p with p >= 10); otherwise it is LighthouseOld.  "v0.2.9"
\* is legacy and "v0.2.10" is current.
C5_LighthouseCurrentIffAboveThreshold ==
    (Returned /\ Fields[1] = "Lighthouse")
    => /\ Kind \in {"Lighthouse", "LighthouseOld"}
       /\ Kind = "Lighthouse" <=>
             /\ NumFields >= 2
             /\ LhParts[1] = "v0"
             /\ Len(LhParts) >= 2
             /\ LhMinor.ok
             /\ \/ LhMinor.val > 2
                \/ LhMinor.val = 2 /\ Len(LhParts) >= 3 /\ LhPatch.ok
                      /\ LhPatch.val >= 10
       /\ (NumFields >= 2 /\ Fields[2] = "v0.2.9")  => Kind = "LighthouseOld"
       /\ (NumFields >= 2 /\ Fields[2] = "v0.2.10") => Kind = "Lighthouse"

C5_LighthouseAtPatchThreshold ==
    /\ Returned
    /\ Fields[1] = "Lighthouse"
    /\ NumFields >= 2
    /\ Fields[2] = "v0.2.10"
    /\ Kind = "Lighthouse"

(***************************************************************************)
(* C6                                                                      *)
(***************************************************************************)
\* a Lighthouse minor, or a patch reached because the minor is 2, that does
\* not parse
LhParseFails ==
    /\ NumFields >= 2
    /\ LhParts[1] = "v0"
    /\ Len(LhParts) >= 2
    /\ \/ ~LhMinor.ok
       \/ LhMinor.ok /\ LhMinor.val = 2 /\ Len(LhParts) >= 3 /\ ~LhPatch.ok

\* a Prysm alpha build number that does not parse
AlphaParseFails ==
    NumFields >= 2 /\ Len(AlphaSplit) >= 2 /\ ~parse_i32(AlphaSplit[2]).ok

\* C6: when a number the Lighthouse or Prysm rule parses is not a valid
\* integer, the call still returns: the legacy kind of the family, with the
\* version and OS fields it extracted.
C6_ParseFailureFallsBackToLegacy ==
    Returned =>
        /\ (Fields[1] = "Lighthouse" /\ LhParseFails)
              => ret[1] = << "LighthouseOld", Fields[2], FieldOr(3) >>
        /\ (Fields[1] = "Prysm" /\ AlphaParseFails)
              => ret[1] = << "PrysmOld", FieldOr(3), FieldOr(4) >>

C6_UnparsablePatchClassified ==
    /\ Returned
    /\ Fields[1] = "Lighthouse"
    /\ LhParseFails
    /\ Fields[2] = "v0.2.x"
    /\ Kind = "LighthouseOld"
    /\ Version = "v0.2.x"

(***************************************************************************)
(* C7                                                                      *)
(***************************************************************************)
KnownMarkers ==
    {"Lighthouse", "teku", "github.com", "Prysm", "nim-libp2p", "js-libp2p"}

\* C7: the result is (Unknown, "unknown", "unknown") if and only if the first
\* field is not exactly one of the six markers; "gobbledygook/1.0",
\* "lighthouse/v0.3.0" and "" classify as Unknown.
C7_UnknownIffNoMarker ==
    Returned =>
        /\ ret[1] = << "Unknown", "unknown", "unknown" >>
              <=> Fields[1] \notin KnownMarkers
        /\ Kind = "Unknown" <=> Fields[1] \notin KnownMarkers
        /\ info.agent_version \in {"gobbledygook/1.0", "lighthouse/v0.3.0", ""}
              => Kind = "Unknown"

C7_LowerCaseMarkerUnknown ==
    /\ Returned
    /\ info.agent_version = "lighthouse/v0.3.0"
    /\ ret[1] = << "Unknown", "unknown", "unknown" >>

(***************************************************************************)
(* C8                                                                      *)
(***************************************************************************)
\* C8: for first field "nim-libp2p" or "js-libp2p" the version is exactly the
\* 2nd field and the OS tag exactly the 3rd, each "unknown" when absent.
C8_NimbusLodestarSecondAndThirdField ==
    Returned =>
        /\ Fields[1] = "nim-libp2p"
              => ret[1] = << "Nimbus", FieldOr(2), FieldOr(3) >>
        /\ Fields[1] = "js-libp2p"
              => ret[1] = << "Lodestar", FieldOr(2), FieldOr(3) >>

C8_NimbusWithoutOsField ==
    /\ Returned
    /\ Fields[1] = "nim-libp2p"
    /\ NumFields = 2
    /\ Version = Fields[2]
    /\ Version /= "unknown"
    /\ OsVersion = "unknown"

(***************************************************************************)
(* C9                                                                      *)
(***************************************************************************)
\* C9: a record built by Client::from_identify_info whose kind is Unknown
\* holds the raw agent string, unmodified, in agent_string.
C9_UnknownKeepsRawAgentString ==
    (pc = "identified" /\ client.kind = "Unknown")
    => client.agent_string = Some(info.agent_version)

C9_UnknownIdentified ==
    /\ pc = "identified"
    /\ client.kind = "Unknown"
    /\ info.agent_version = "gobbledygook/1.0"
    /\ client.agent_string = Some("gobbledygook/1.0")

(***************************************************************************)
(* C10                                                                     *)
(***************************************************************************)
\* C10: every Client record, the default one or one built from identify info,
\* with kind Unknown has version "unknown" and os_version "unknown", whether
\* or not a raw agent string was captured.
C10_UnknownHasUnknownVersion ==
    client.kind = "Unknown"
    => client.version = "unknown" /\ client.os_version = "unknown"

C10_UnknownWithRawString ==
    /\ pc = "identified"
    /\ client.kind = "Unknown"
    /\ client.agent_string /= None
    /\ NumFields >= 2
    /\ client.version = "unknown"

(***************************************************************************)
(* C22                                                                     *)
(***************************************************************************)
\* C22: for first field "Prysm" the alpha build number is read from the 2nd
\* field, the returned version is the 3rd field and the returned OS tag the
\* 4th; with the 3rd field absent the version is "unknown", which is not an
\* excluded hash, so alpha number 24 without a commit-hash field (e.g.
\* "Prysm/v1.0.0-alpha.24") classifies as Prysm.
C22_PrysmVersionIsThirdField ==
    (Returned /\ Fields[1] = "Prysm") =>
        /\ Version = FieldOr(3)
        /\ OsVersion = FieldOr(4)
        /\ ~AlphaParsed => Kind = "PrysmOld"
        /\ (AlphaParsed /\ AlphaNumber = 24 /\ NumFields = 2) =>
              /\ Version = "unknown"
              /\ Version \notin ExcludedHashes
              /\ Kind = "Prysm"
        /\ info.agent_version = "Prysm/v1.0.0-alpha.24"
              => ret[1] = << "Prysm", "unknown", "unknown" >>

C22_ThresholdWithoutHashField ==
    /\ Returned
    /\ info.agent_version = "Prysm/v1.0.0-alpha.24"
    /\ Kind = "Prysm"
    /\ Version = "unknown"

(***************************************************************************)
(* C23                                                                     *)
(***************************************************************************)
\* C23: Client::from_identify_info copies the identify protocol_version
\* unchanged into the record and sets agent_string to Some(raw agent_version)
\* for every family; kind, version and os_version are those the agent_version
\* alone gives, whatever the protocol_version is.
C23_RecordFramesIdentifyInfo ==
    pc = "identified" =>
        /\ client.protocol_version = info.protocol_version
        /\ client.agent_string = Some(info.agent_version)
        /\ << client.kind, client.version, client.os_version >> = ret[1]
        /\ \A pv \in ProtocolVersions :
              LET other == from_identify_info([info EXCEPT !.protocol_version = pv]) IN
                 /\ other.kind = client.kind
                 /\ other.version = client.version
                 /\ other.os_version = client.os_version
                 /\ other.agent_string = client.agent_string
                 /\ other.protocol_version = pv

C23_KnownFamilyKeepsAgentString ==
    /\ pc = "identified"
    /\ client.kind = "Lighthouse"
    /\ info.protocol_version = "ipfs/0.1.0"
    /\ client.protocol_version = "ipfs/0.1.0"
    /\ client.agent_string = Some("Lighthouse/v0.2.10/linux-x86_64")

(***************************************************************************)
(* The peer registry: one Client record per identified peer.               *)
(* record_identification replaces the peer's record, get returns it, and   *)
(* remove drops it when the peer disconnects.                              *)
(***************************************************************************)
\* longest sequence of registry operations explored
MaxOps == 4

Peers == {"p", "q"}

\* the records handed to the registry: what from_identify_info builds from
\* identify events that differ in every field
RecordA == from_identify_info([agent_version    |-> "Lighthouse/v0.2.10/linux-x86_64",
                               protocol_version |-> "ipfs/0.1.0"])
RecordB == from_identify_info([agent_version    |-> "Prysm/v1.0.0-alpha.23/abcdef/darwin",
                               protocol_version |-> "ipfs/0.2.0"])
RecordC == from_identify_info([agent_version    |-> "gobbledygook/1.0",
                               protocol_version |-> "unknown"])

RegistryRecords == { RecordA, RecordB, RecordC }

\* a record that takes each field from r where an earlier record is held and
\* that record's field is still the default one (a merge)
MergedInto(old, r) ==
    [ kind             |-> r.kind,
      version          |-> IF r.version = "unknown" THEN old.version ELSE r.version,
      os_version       |-> IF r.os_version = "unknown" THEN old.os_version
                           ELSE r.os_version,
      protocol_version |-> r.protocol_version,
      agent_string     |-> r.agent_string ]

\* record_identification merging the new record into the one held
record_identification_merging(reg, peer_id, classified) ==
    [reg EXCEPT ![peer_id] =
        IF reg[peer_id] = None THEN Some(classified)
        ELSE Some(MergedInto(reg[peer_id][1], classified))]

\* record_identification(peer_id, classified): the registry after it
record_identification(reg, peer_id, classified) ==
    [reg EXCEPT ![peer_id] = Some(classified)]

\* get(peer_id): the current record, or absence
get(reg, peer_id) == reg[peer_id]

\* remove(peer_id): the registry after it
remove(reg, peer_id) == [reg EXCEPT ![peer_id] = None]

RegistryInit ==
    /\ registry = [p \in Peers |-> None]
    /\ history = <<>>
    /\ got = None
    /\ ClientIdle
    /\ SharedIdle
    /\ TopicIdle
    /\ CodecIdle
    /\ SigIdle
    /\ MacroIdle

RecordIdentification(p, r) ==
    /\ Len(history) < MaxOps
    /\ registry' = record_identification(registry, p, r)
    /\ history' = Append(history, [op |-> "record_identification", peer |-> p, record |-> r])
    /\ got' = None
    /\ UNCHANGED outsideRegistry

Get(p) ==
    /\ Len(history) < MaxOps
    /\ got' = Some(get(registry, p))
    /\ history' = Append(history, [op |-> "get", peer |-> p])
    /\ UNCHANGED registry
    /\ UNCHANGED outsideRegistry

Remove(p) ==
    /\ Len(history) < MaxOps
    /\ registry' = remove(registry, p)
    /\ history' = Append(history, [op |-> "remove", peer |-> p])
    /\ got' = None
    /\ UNCHANGED outsideRegistry

RegistryNext ==
    \/ \E p \in Peers, r \in RegistryRecords : RecordIdentification(p, r)
    \/ \E p \in Peers : Get(p)
    \/ \E p \in Peers : Remove(p)

SpecRegistry == RegistryInit /\ [][RegistryNext]_vars

(***************************************************************************)
(* C12                                                                     *)
(***************************************************************************)
\* what the operations h say peer p's record is: the record of the latest
\* record_identification on p, unless a remove on p came after it
RECURSIVE LastIdentified(_, _)
LastIdentified(h, p) ==
    IF h = <<>> THEN None
    ELSE LET last == h[Len(h)] IN
         IF last.peer = p /\ last.op = "record_identification" THEN Some(last.record)
         ELSE IF last.peer = p /\ last.op = "remove" THEN None
         ELSE LastIdentified(SubSeq(h, 1, Len(h) - 1), p)

\* C12: after any sequence of record_identification, get and remove, get(p)
\* returns exactly the record of the latest record_identification(p, .) not
\* followed by remove(p), whole, and absence otherwise; operations on another
\* peer never change it.
C12_GetReturnsLatestRecord ==
    /\ \A p \in Peers : get(registry, p) = LastIdentified(history, p)
    /\ got /= None => got[1] = LastIdentified(history, history[Len(history)].peer)

C12_ReplacedThenRead ==
    /\ got /= None
    /\ Len(history) = 4
    /\ history[1].op = "record_identification" /\ history[1].peer = "p"
    /\ history[2].op = "record_identification" /\ history[2].peer = "q"
    /\ history[3].op = "record_identification" /\ history[3].peer = "p"
    /\ history[3].record /= history[1].record
    /\ history[3].record.version = "unknown"
    /\ history[4].op = "get" /\ history[4].peer = "p"
    /\ got[1] = Some(history[3].record)

(***************************************************************************)
(* One registry entry under concurrent callers.  Two peer-handling         *)
(* contexts each call record_identification(p, .) once and a third calls   *)
(* get(p); every call holds the entry's lock while it copies the record,   *)
(* which takes two steps.                                                  *)
(***************************************************************************)
\* number of get(p) calls the reading context makes
MaxGets == 2

Writers == {"w1", "w2"}
Readers == {"r1"}
Callers == Writers \cup Readers

\* the record each writing context passes to record_identification
WriterRecord == ("w1" :> RecordA) @@ ("w2" :> RecordB)

\* a record is copied in two parts
FirstPart(r)  == [kind |-> r.kind, version |-> r.version, os_version |-> r.os_version]
SecondPart(r) == [protocol_version |-> r.protocol_version,
                  agent_string     |-> r.agent_string]
Whole(first, second) ==
    [ kind             |-> first.kind,
      version          |-> first.version,
      os_version       |-> first.os_version,
      protocol_version |-> second.protocol_version,
      agent_string     |-> second.agent_string ]

\* taking the lock with no regard for its holder
may_lock_unguarded(l, t) == TRUE

\* the lock can be taken only when no caller holds it
may_lock(l, t) == l = "free"

\* the place in the storing order of the latest record whose
\* record_identification has returned; 0 when none has
RECURSIVE ReturnedUpTo(_)
ReturnedUpTo(n) ==
    IF n = 0 THEN 0
    ELSE IF tpc[commits[n]] = "returned" THEN n
    ELSE ReturnedUpTo(n - 1)

SharedInit ==
    /\ lock = "free"
    /\ entry = [ present |-> FALSE,
                 first   |-> FirstPart(DefaultClient),
                 second  |-> SecondPart(DefaultClient) ]
    /\ tpc = [t \in Callers |-> "idle"]
    /\ local = [t \in Readers |->
                  [ gets |-> 0, floor |-> 0, present |-> FALSE,
                    first  |-> FirstPart(DefaultClient),
                    second |-> SecondPart(DefaultClient),
                    result |-> None, result_floor |-> 0 ]]
    /\ commits = <<>>
    /\ ClientIdle
    /\ RegistryIdle
    /\ TopicIdle
    /\ CodecIdle
    /\ SigIdle
    /\ MacroIdle

\* record_identification(p, WriterRecord[w]) by context w
WriterLock(w) ==
    /\ tpc[w] = "idle"
    /\ may_lock(lock, w)
    /\ lock' = w
    /\ tpc' = [tpc EXCEPT ![w] = "locked"]
    /\ UNCHANGED <<entry, local, commits>>
    /\ UNCHANGED outsideShared

WriterStoreFirst(w) ==
    /\ tpc[w] = "locked"
    /\ entry' = [entry EXCEPT !.present = TRUE, !.first = FirstPart(WriterRecord[w])]
    /\ tpc' = [tpc EXCEPT ![w] = "half"]
    /\ UNCHANGED <<lock, local, commits>>
    /\ UNCHANGED outsideShared

WriterStoreSecond(w) ==
    /\ tpc[w] = "half"
    /\ entry' = [entry EXCEPT !.second = SecondPart(WriterRecord[w])]
    /\ commits' = Append(commits, w)
    /\ tpc' = [tpc EXCEPT ![w] = "stored"]
    /\ UNCHANGED <<lock, local>>
    /\ UNCHANGED outsideShared

WriterUnlock(w) ==
    /\ tpc[w] = "stored"
    /\ lock' = "free"
    /\ tpc' = [tpc EXCEPT ![w] = "returned"]
    /\ UNCHANGED <<entry, local, commits>>
    /\ UNCHANGED outsideShared

\* get(p) by context r
ReaderStart(r) ==
    /\ tpc[r] = "idle"
    /\ local[r].gets < MaxGets
    /\ local' = [local EXCEPT ![r].floor = ReturnedUpTo(Len(commits))]
    /\ tpc' = [tpc EXCEPT ![r] = "called"]
    /\ UNCHANGED <<lock, entry, commits>>
    /\ UNCHANGED outsideShared

ReaderLock(r) ==
    /\ tpc[r] = "called"
    /\ may_lock(lock, r)
    /\ lock' = r
    /\ tpc' = [tpc EXCEPT ![r] = "locked"]
    /\ UNCHANGED <<entry, local, commits>>
    /\ UNCHANGED outsideShared

ReaderLoadFirst(r) ==
    /\ tpc[r] = "locked"
    /\ local' = [local EXCEPT ![r].present = entry.present, ![r].first = entry.first]
    /\ tpc' = [tpc EXCEPT ![r] = "half"]
    /\ UNCHANGED <<lock, entry, commits>>
    /\ UNCHANGED outsideShared

ReaderLoadSecond(r) ==
    /\ tpc[r] = "half"
    /\ local' = [local EXCEPT ![r].second = entry.second]
    /\ tpc' = [tpc EXCEPT ![r] = "loaded"]
    /\ UNCHANGED <<lock, entry, commits>>
    /\ UNCHANGED outsideShared

ReaderUnlock(r) ==
    /\ tpc[r] = "loaded"
    /\ lock' = "free"
    /\ local' = [local EXCEPT
                   ![r].result = IF local[r].present
                                 THEN Some(Whole(local[r].first, local[r].second))
                                 ELSE None,
                   ![r].result_floor = local[r].floor,
                   ![r].gets = local[r].gets + 1]
    /\ tpc' = [tpc EXCEPT ![r] = "idle"]
    /\ UNCHANGED <<entry, commits>>
    /\ UNCHANGED outsideShared

SharedNext ==
    \/ \E w \in Writers : WriterLock(w)
    \/ \E w \in Writers : WriterStoreFirst(w)
    \/ \E w \in Writers : WriterStoreSecond(w)
    \/ \E w \in Writers : WriterUnlock(w)
    \/ \E r \in Readers : ReaderStart(r)
    \/ \E r \in Readers : ReaderLock(r)
    \/ \E r \in Readers : ReaderLoadFirst(r)
    \/ \E r \in Readers : ReaderLoadSecond(r)
    \/ \E r \in Readers : ReaderUnlock(r)

SpecShared == SharedInit /\ [][SharedNext]_vars

(***************************************************************************)
(* C13                                                                     *)
(***************************************************************************)
\* the place in the storing order of the record a get returned
PlaceOf(result) ==
    CHOOSE n \in 1..Len(commits) : WriterRecord[commits[n]] = result[1]

\* C13: under concurrent record_identification(p, r1), record_identification(
\* p, r2) and get(p), every get(p) returns absence or one whole record passed
\* to a record_identification, never a mix of two, and a get that starts after
\* a record_identification has returned does not return an older record.
C13_GetSeesWholeAndLatest ==
    \A r \in Readers :
        local[r].gets > 0 =>
            /\ local[r].result \in {None} \cup { Some(WriterRecord[w]) : w \in Writers }
            /\ local[r].result /= None
                  => \E n \in 1..Len(commits) :
                        WriterRecord[commits[n]] = local[r].result[1]
            /\ local[r].result_floor > 0
                  => /\ local[r].result /= None
                     /\ PlaceOf(local[r].result) >= local[r].result_floor

C13_ReadAfterBothReturned ==
    /\ local["r1"].gets = 2
    /\ local["r1"].result_floor = 2
    /\ commits = << "w2", "w1" >>
    /\ local["r1"].result = Some(RecordA)

(***************************************************************************)
(* Gossip topics.  A topic is (kind, encoding, fork digest); its string is *)
(* <kind literal>/<fork digest, 8 lower-case hex digits>/<encoding         *)
(* literal>, and parse_topic accepts exactly those strings.                *)
(***************************************************************************)
GossipKind == {"BeaconBlock", "BeaconAttestation", "VoluntaryExit"}
GossipEncoding == {"SSZ", "SSZSnappy"}

kind_literal ==
    ("BeaconBlock" :> "beacon_block") @@ ("BeaconAttestation" :> "beacon_attestation")
    @@ ("VoluntaryExit" :> "voluntary_exit")

encoding_literal == ("SSZ" :> "ssz") @@ ("SSZSnappy" :> "ssz_snappy")

\* fork digests: 4 bytes each
ForkDigests == { <<0, 0, 0, 0>>, <<231, 10, 184, 255>>, <<231, 10, 184, 254>> }

GossipTopics == [kind : GossipKind, encoding : GossipEncoding, fork_digest : ForkDigests]

HexDigits == "0123456789abcdef"
UpperHexDigits == "0123456789ABCDEF"

\* the two hex digits of a byte
hex_byte(b) == SubSeq(HexDigits, (b \div 16) + 1, (b \div 16) + 1)
                  \o SubSeq(HexDigits, (b % 16) + 1, (b % 16) + 1)

\* the value of a hex digit of the alphabet given, -1 for any other character
hex_value(c, alphabet) ==
    IF \E i \in 1..16 : SubSeq(alphabet, i, i) = c
    THEN (CHOOSE i \in 1..16 : SubSeq(alphabet, i, i) = c) - 1
    ELSE -1

hex_encode(d) == hex_byte(d[1]) \o hex_byte(d[2]) \o hex_byte(d[3]) \o hex_byte(d[4])

\* Option of the 4 bytes that 8 hex digits of the alphabet stand for
hex_decode(str, alphabet) ==
    IF Len(str) /= 8 THEN None
    ELSE IF \E i \in 1..8 : hex_value(SubSeq(str, i, i), alphabet) < 0 THEN None
    ELSE Some([ i \in 1..4 |->
                  16 * hex_value(SubSeq(str, 2 * i - 1, 2 * i - 1), alphabet)
                     + hex_value(SubSeq(str, 2 * i, 2 * i), alphabet) ])

\* topic_string(category, encoding, digest)
topic_string(t) ==
    kind_literal[t.kind] \o "/" \o hex_encode(t.fork_digest) \o "/"
        \o encoding_literal[t.encoding]

\* parse_topic taking the digest in either case of hex digits
parse_topic_any_case(str) ==
    LET parts == split(str, "/") IN
    IF Len(parts) /= 3 THEN None
    ELSE IF \A k \in GossipKind : kind_literal[k] /= parts[1] THEN None
    ELSE IF \A e \in GossipEncoding : encoding_literal[e] /= parts[3] THEN None
    ELSE IF hex_decode(parts[2], HexDigits) = None
             /\ hex_decode(parts[2], UpperHexDigits) = None THEN None
    ELSE Some([ kind        |-> CHOOSE k \in GossipKind : kind_literal[k] = parts[1],
                encoding    |-> CHOOSE e \in GossipEncoding :
                                    encoding_literal[e] = parts[3],
                fork_digest |-> IF hex_decode(parts[2], HexDigits) /= None
                                THEN hex_decode(parts[2], HexDigits)[1]
                                ELSE hex_decode(parts[2], UpperHexDigits)[1] ])

\* parse_topic(string): the topic, or absence for a string that is no topic
parse_topic(str) ==
    LET parts == split(str, "/") IN
    IF Len(parts) /= 3 THEN None
    ELSE IF \A k \in GossipKind : kind_literal[k] /= parts[1] THEN None
    ELSE IF \A e \in GossipEncoding : encoding_literal[e] /= parts[3] THEN None
    ELSE IF hex_decode(parts[2], HexDigits) = None THEN None
    ELSE Some([ kind        |-> CHOOSE k \in GossipKind : kind_literal[k] = parts[1],
                encoding    |-> CHOOSE e \in GossipEncoding :
                                    encoding_literal[e] = parts[3],
                fork_digest |-> hex_decode(parts[2], HexDigits)[1] ])

\* strings that may arrive as topics: well-formed ones and near misses
CandidateKinds == { kind_literal[k] : k \in GossipKind }
                     \cup { "Beacon_Block", "beacon_blocks", "" }
CandidateDigests == { hex_encode(d) : d \in ForkDigests }
                     \cup { "E70AB8FF", "e70ab8f", "e70ab8ffe", "e70ab8fg", "" }
CandidateEncodings == { encoding_literal[e] : e \in GossipEncoding }
                     \cup { "SSZ", "ssz_snapp", "" }

CandidateTopics ==
    { a \o "/" \o b \o "/" \o c :
        a \in CandidateKinds, b \in CandidateDigests, c \in CandidateEncodings }
    \cup { "", "beacon_block", "beacon_block/e70ab8ff", "/beacon_block/e70ab8ff/ssz",
           "beacon_block/e70ab8ff/ssz/", "e70ab8ff/beacon_block/ssz",
           "beacon_block/ssz/e70ab8ff", "beacon_block//e70ab8ff/ssz" }

TopicInit ==
    /\ topic \in GossipTopics
    /\ rendered = None
    /\ candidate \in CandidateTopics
    /\ parsed = None
    /\ ClientIdle
    /\ RegistryIdle
    /\ SharedIdle
    /\ CodecIdle
    /\ SigIdle
    /\ MacroIdle

\* the topic at hand is rendered
TopicString ==
    /\ rendered = None
    /\ rendered' = Some(topic_string(topic))
    /\ UNCHANGED <<topic, candidate, parsed>>
    /\ UNCHANGED outsideTopic

\* the rendered string comes back as a topic and is parsed
ParseRendered ==
    /\ rendered /= None
    /\ parsed = None
    /\ candidate' = rendered[1]
    /\ parsed' = Some(parse_topic(rendered[1]))
    /\ UNCHANGED <<topic, rendered>>
    /\ UNCHANGED outsideTopic

\* the received string is parsed
ParseCandidate ==
    /\ parsed = None
    /\ parsed' = Some(parse_topic(candidate))
    /\ UNCHANGED <<topic, rendered, candidate>>
    /\ UNCHANGED outsideTopic

TopicNext == TopicString \/ ParseRendered \/ ParseCandidate

SpecTopic == TopicInit /\ [][TopicNext]_vars

(***************************************************************************)
(* C15                                                                     *)
(***************************************************************************)
\* C15: parse_topic(topic_string(c, e, d)) = Some((c, e, d)) for every
\* category, encoding and fork digest; parse_topic returns None for every
\* string topic_string does not produce; two topics that differ only in fork
\* digest render to different strings and parse to unequal topics.
C15_TopicRoundTrip ==
    /\ (parsed /= None /\ rendered /= None /\ candidate = rendered[1])
          => parsed[1] = Some(topic)
    /\ (parsed /= None /\ \A t \in GossipTopics : topic_string(t) /= candidate)
          => parsed[1] = None
    /\ rendered /= None =>
          \A d \in ForkDigests \ {topic.fork_digest} :
              LET other == [topic EXCEPT !.fork_digest = d] IN
                 /\ topic_string(other) /= rendered[1]
                 /\ parse_topic(topic_string(other)) /= parse_topic(rendered[1])

C15_UpperCaseDigestRejected ==
    /\ parsed /= None
    /\ candidate = "beacon_block/E70AB8FF/ssz_snappy"
    /\ parsed[1] = None

C15_RenderedParsedBack ==
    /\ parsed /= None
    /\ rendered = Some("beacon_attestation/e70ab8fe/ssz_snappy")
    /\ candidate = rendered[1]
    /\ parsed[1] = Some(topic)

(***************************************************************************)
(* The message codec (spec.md 4.2).  PubsubMessage::encode and              *)
(* PubsubMessage::decode are called by benches.rs; a payload's structured  *)
(* serialization and the compression are the codec's collaborators and are  *)
(* modelled by a byte layout per category and by a length-prefixed frame.   *)
(***************************************************************************)
MaxTopics == 2
MaxBody   == 3

Byte == {0, 2}

BlockBodies == UNION { [1..n -> Byte] : n \in 0..MaxBody }

PubsubMessages ==
    { [kind |-> "BeaconBlock", payload |-> [slot |-> 1, body |-> b]] :
          b \in BlockBodies }
    \cup { [kind |-> "BeaconAttestation", payload |-> [slot |-> a, index |-> b]] :
          a \in Byte, b \in Byte }
    \cup { [kind |-> "VoluntaryExit", payload |-> [epoch |-> a]] : a \in Byte }

Error(e) == [ok |-> FALSE, err |-> e]

\* the maximum uncompressed length of a category's payload
max_size(kind) ==
    CASE kind = "BeaconBlock"       -> 3
      [] kind = "BeaconAttestation" -> 2
      [] kind = "VoluntaryExit"     -> 1

serialize(m) ==
    CASE m.kind = "BeaconBlock"       -> <<m.payload.slot>> \o m.payload.body
      [] m.kind = "BeaconAttestation" -> <<m.payload.slot, m.payload.index>>
      [] m.kind = "VoluntaryExit"     -> <<m.payload.epoch>>

deserialize(kind, bytes) ==
    CASE kind = "BeaconBlock" ->
            IF Len(bytes) >= 1
            THEN Ok([kind |-> kind,
                     payload |-> [slot |-> bytes[1], body |-> Tail(bytes)]])
            ELSE Error("InvalidPayload")
      [] kind = "BeaconAttestation" ->
            IF Len(bytes) = 2
            THEN Ok([kind |-> kind,
                     payload |-> [slot |-> bytes[1], index |-> bytes[2]]])
            ELSE Error("InvalidPayload")
      [] kind = "VoluntaryExit" ->
            IF Len(bytes) = 1
            THEN Ok([kind |-> kind, payload |-> [epoch |-> bytes[1]]])
            ELSE Error("InvalidPayload")

\* a frame: the claimed length, then the bytes
compress(bytes) == <<Len(bytes)>> \o bytes

\* the bytes are produced one by one and the cap is enforced on what was
\* produced, whatever length the frame claims
decompress(bytes, limit) ==
    IF bytes = <<>> THEN Error("DecompressionFailed")
    ELSE IF Len(Tail(bytes)) > limit THEN Error("DecompressionFailed")
    ELSE IF bytes[1] /= Len(Tail(bytes)) THEN Error("DecompressionFailed")
    ELSE Ok(Tail(bytes))

encode_unbounded(m, enc) ==
    Ok(IF enc = "SSZSnappy" THEN compress(serialize(m)) ELSE serialize(m))

encode(m, enc) ==
    LET ser == serialize(m) IN
       IF Len(ser) > max_size(m.kind) THEN Error("MessageTooLarge")
       ELSE Ok(IF enc = "SSZSnappy" THEN compress(ser) ELSE ser)

Recognized(hashes) == { i \in 1..Len(hashes) : parse_topic(hashes[i]) /= None }

Min(S) == CHOOSE i \in S : \A j \in S : i <= j
Max(S) == CHOOSE i \in S : \A j \in S : i >= j

decode_from(hashes, bytes, i) ==
    LET t    == parse_topic(hashes[i])[1]
        data == IF t.encoding = "SSZSnappy"
                THEN decompress(bytes, max_size(t.kind))
                ELSE Ok(bytes)
    IN  IF ~data.ok THEN data
        ELSE IF Len(data.val) > max_size(t.kind) THEN Error("PayloadTooLarge")
        ELSE deserialize(t.kind, data.val)

decode_last_topic(hashes, bytes) ==
    IF Recognized(hashes) = {} THEN Error("UnknownTopic")
    ELSE decode_from(hashes, bytes, Max(Recognized(hashes)))

decode(hashes, bytes) ==
    IF Recognized(hashes) = {} THEN Error("UnknownTopic")
    ELSE decode_from(hashes, bytes, Min(Recognized(hashes)))

TopicHashes ==
    { "beacon_block/e70ab8ff/ssz", "beacon_block/e70ab8ff/ssz_snappy",
      "beacon_attestation/e70ab8ff/ssz", "voluntary_exit/00000000/ssz_snappy",
      "beacon_block/E70AB8FF/ssz", "unknown_topic" }

TopicLists == UNION { [1..n -> TopicHashes] : n \in 0..MaxTopics }

PeerBytes == { <<>>, <<0>>, <<2, 0, 2>>, <<5, 0>>, <<0, 2, 0, 2, 0>> }

CodecInit ==
    /\ message \in PubsubMessages
    /\ encoding \in GossipEncoding
    /\ topic_hashes \in TopicLists
    /\ sent = None
    /\ wire = None
    /\ decoded = None
    /\ ClientIdle
    /\ RegistryIdle
    /\ SharedIdle
    /\ TopicIdle
    /\ SigIdle
    /\ MacroIdle

\* message.encode(encoding), and the bytes are delivered when it succeeds
Encode ==
    /\ sent = None
    /\ wire = None
    /\ sent' = Some(encode(message, encoding))
    /\ wire' = IF sent'[1].ok THEN Some(sent'[1].val) ELSE wire
    /\ UNCHANGED <<message, encoding, topic_hashes, decoded>>
    /\ UNCHANGED outsideCodec

\* bytes of a peer's making arrive instead
Inject ==
    /\ wire = None
    /\ sent = None
    /\ \E b \in PeerBytes : wire' = Some(b)
    /\ UNCHANGED <<message, encoding, topic_hashes, sent, decoded>>
    /\ UNCHANGED outsideCodec

\* PubsubMessage::decode(&topic_hashes, &wire)
Decode ==
    /\ wire /= None
    /\ decoded = None
    /\ decoded' = Some(decode(topic_hashes, wire[1]))
    /\ UNCHANGED <<message, encoding, topic_hashes, sent, wire>>
    /\ UNCHANGED outsideCodec

CodecNext == Encode \/ Inject \/ Decode

SpecCodec == CodecInit /\ [][CodecNext]_vars

\* the topic the message goes out on, whatever the fork digest
IsTopicOf(str, m, enc) ==
    /\ parse_topic(str) /= None
    /\ parse_topic(str)[1].kind = m.kind
    /\ parse_topic(str)[1].encoding = enc

EncodedAndDecoded ==
    /\ sent /= None
    /\ sent[1].ok
    /\ wire = Some(sent[1].val)
    /\ decoded /= None

(***************************************************************************)
(* C14                                                                     *)
(***************************************************************************)
\* C14: decoding the output of a successful encode(m, enc) with a topic list
\* whose first recognized topic is the topic of m's category and encoding
\* enc returns Ok(m), for every category and both encodings.
C14_RoundTripOnFirstRecognizedTopic ==
    ( /\ EncodedAndDecoded
      /\ Recognized(topic_hashes) /= {}
      /\ IsTopicOf(topic_hashes[Min(Recognized(topic_hashes))], message, encoding) )
        => decoded[1] = Ok(message)

\* C14 as stated: it is enough that the topic list contains the topic of m's
\* category and encoding.
C14_RoundTripOnAnyContainedTopic ==
    ( /\ EncodedAndDecoded
      /\ \E i \in 1..Len(topic_hashes) :
             IsTopicOf(topic_hashes[i], message, encoding) )
        => decoded[1] = Ok(message)

C14_CompressedBlockDecoded ==
    /\ EncodedAndDecoded
    /\ message = [kind |-> "BeaconBlock",
                  payload |-> [slot |-> 1, body |-> <<2, 0>>]]
    /\ encoding = "SSZSnappy"
    /\ topic_hashes = <<"unknown_topic", "beacon_block/e70ab8ff/ssz_snappy">>
    /\ sent[1].val = <<3, 1, 2, 0>>
    /\ decoded[1] = Ok(message)

(***************************************************************************)
(* C16                                                                     *)
(***************************************************************************)
\* C16: decode takes the message category from the first element of
\* topic_hashes that is a recognized topic; when no element is recognized,
\* the empty list included, it returns DecodeError::UnknownTopic, and the
\* call leaves the caller's topic list and bytes as they were.
C16_CategoryFromFirstRecognizedTopic ==
    /\ [](decoded /= None =>
            /\ (Recognized(topic_hashes) = {})
                   <=> (decoded[1] = Error("UnknownTopic"))
            /\ decoded[1].ok =>
                   decoded[1].val.kind =
                      parse_topic(topic_hashes[Min(Recognized(topic_hashes))])[1].kind)
    /\ [][(decoded = None /\ decoded' /= None)
             => UNCHANGED <<message, encoding, topic_hashes, sent, wire>>]_vars

C16_SecondTopicNotUsed ==
    /\ decoded /= None
    /\ topic_hashes = <<"beacon_attestation/e70ab8ff/ssz", "beacon_block/e70ab8ff/ssz">>
    /\ wire = Some(<<1, 2>>)
    /\ decoded[1].ok
    /\ decoded[1].val.kind = "BeaconAttestation"

C16_EmptyTopicListUnknown ==
    /\ decoded /= None
    /\ topic_hashes = <<>>
    /\ decoded[1] = Error("UnknownTopic")

(***************************************************************************)
(* The BLS signature wrapper, src/eth2/utils/bls/src/signature.rs.          *)
(* A RawSignature is a compressed point: two 48-byte coordinates, the sign  *)
(* flag a and the infinity flag; its byte form and the checks its parser    *)
(* makes are those the tests of signature.rs construct and expect.          *)
(***************************************************************************)
BLS_SIG_BYTE_SIZE == 96

HALF == BLS_SIG_BYTE_SIZE \div 2

Zeros(n) == [i \in 1..n |-> 0]

\* the field modulus q and q - 1, big-endian
Q_HEX ==
    << 26, 1, 17, 234, 57, 127, 230, 154, 75, 27, 167, 182,
       67, 75, 172, 215, 100, 119, 75, 132, 243, 133, 18, 191,
       103, 48, 210, 160, 246, 176, 246, 36, 30, 171, 255, 254,
       177, 83, 255, 255, 185, 254, 255, 255, 255, 255, 170, 171 >>

Q_MINUS_ONE_HEX ==
    << 26, 1, 17, 234, 57, 127, 230, 154, 75, 27, 167, 182,
       67, 75, 172, 215, 100, 119, 75, 132, 243, 133, 18, 191,
       103, 48, 210, 160, 246, 176, 246, 36, 30, 171, 255, 254,
       177, 83, 255, 255, 185, 254, 255, 255, 255, 255, 170, 170 >>

\* x < q, both big-endian of HALF bytes
lt_q(x) ==
    LET diff == { i \in 1..HALF : x[i] /= Q_HEX[i] } IN
       /\ diff /= {}
       /\ LET i == CHOOSE i \in diff : \A j \in diff : i <= j IN x[i] < Q_HEX[i]

\* the outcome of a call that panics
Panic == Error("panic")

\* u8 arithmetic on outcomes: an overflow panics in a debug build and wraps in
\* a release build
u8_wrap(n) == IF n <= 255 THEN Ok(n) ELSE IF build = "debug" THEN Panic ELSE Ok(n % 256)
u8_pow(b, n) == u8_wrap(b ^ n)
u8_add(a, b) == IF a.ok /\ b.ok THEN u8_wrap(a.val + b.val) ELSE Panic

a_flag_value == 32
b_flag_value == 64
c_flag_value == 128

RawInfinity == [infinity |-> TRUE, a_flag |-> FALSE, x1 |-> Zeros(HALF), x2 |-> Zeros(HALF)]

\* construct_signature: the coordinates right-aligned in their halves, the
\* flags added to the first byte of each half
construct_signature(a_flag1, b_flag1, c_flag1, x1, a_flag2, b_flag2, c_flag2, x2) ==
    LET flags1 == (IF a_flag1 THEN a_flag_value ELSE 0) + (IF b_flag1 THEN b_flag_value ELSE 0)
                    + (IF c_flag1 THEN c_flag_value ELSE 0)
        flags2 == (IF a_flag2 THEN a_flag_value ELSE 0) + (IF b_flag2 THEN b_flag_value ELSE 0)
                    + (IF c_flag2 THEN c_flag_value ELSE 0)
        h1 == Zeros(HALF - Len(x1)) \o x1
        h2 == Zeros(HALF - Len(x2)) \o x2
    IN  [h1 EXCEPT ![1] = @ + flags1] \o [h2 EXCEPT ![1] = @ + flags2]

\* RawSignature::as_bytes
raw_as_bytes(raw) ==
    construct_signature(raw.a_flag, raw.infinity, TRUE, raw.x1, FALSE, FALSE, FALSE, raw.x2)

\* RawSignature::from_bytes
raw_from_bytes(bytes) ==
    IF Len(bytes) /= BLS_SIG_BYTE_SIZE THEN Err
    ELSE
      LET c_flag1 == bytes[1] >= c_flag_value
          b_flag1 == (bytes[1] % c_flag_value) >= b_flag_value
          a_flag1 == (bytes[1] % b_flag_value) >= a_flag_value
          x1 == [SubSeq(bytes, 1, HALF) EXCEPT ![1] = @ % a_flag_value]
          x2 == SubSeq(bytes, HALF + 1, BLS_SIG_BYTE_SIZE)
      IN  IF ~c_flag1 THEN Err
          ELSE IF x2[1] >= a_flag_value THEN Err
          ELSE IF b_flag1
               THEN IF a_flag1 \/ x1 /= Zeros(HALF) \/ x2 /= Zeros(HALF) THEN Err
                    ELSE Ok(RawInfinity)
          ELSE IF ~lt_q(x1) \/ ~lt_q(x2) THEN Err
          ELSE Ok([infinity |-> FALSE, a_flag |-> a_flag1, x1 |-> x1, x2 |-> x2])

SecretKeys == {1, 2}
PublicKeys == {1, 2, 3}
Msgs == { <<42, 42>>, <<99, 99>> }
Domains == {0, 1}

\* the message hashed to the two coordinates the signing is done on
hash_real(m, d) == <<m[1], d>>
hash_imaginary(m, d) == <<m[2], d + 1>>
Hashed == { hash_real(m, d) : m \in Msgs, d \in Domains }
             \cup { hash_imaginary(m, d) : m \in Msgs, d \in Domains }

\* RawSignature::new_hashed: a point that is never the point at infinity
raw_new_hashed(x_real_hashed, x_imaginary_hashed, sk) ==
    [infinity |-> FALSE,
     a_flag   |-> (sk + x_real_hashed[2]) % 2 = 1,
     x1       |-> [Zeros(HALF) EXCEPT ![1] = sk, ![HALF - 1] = x_real_hashed[1],
                                      ![HALF] = x_real_hashed[2]],
     x2       |-> [Zeros(HALF) EXCEPT ![HALF - 1] = x_imaginary_hashed[1],
                                      ![HALF] = x_imaginary_hashed[2]]]

\* RawSignature::new
raw_new(m, d, sk) == raw_new_hashed(hash_real(m, d), hash_imaginary(m, d), sk)

\* RawSignature::verify_hashed; what it answers for the point at infinity is
\* the library's affair
raw_verify_hashed(raw, x_real_hashed, x_imaginary_hashed, pk, infinity_answer) ==
    IF raw.infinity THEN infinity_answer
    ELSE pk \in SecretKeys /\ raw = raw_new_hashed(x_real_hashed, x_imaginary_hashed, pk)

\* RawSignature::verify
raw_verify(raw, m, d, pk, infinity_answer) ==
    raw_verify_hashed(raw, hash_real(m, d), hash_imaginary(m, d), pk, infinity_answer)

new(m, d, sk) == [signature |-> raw_new(m, d, sk), is_empty |-> FALSE]

verify(self, m, d, pk, infinity_answer) ==
    IF self.is_empty THEN FALSE
    ELSE raw_verify(self.signature, m, d, pk, infinity_answer)

verify_hashed(self, x_real_hashed, x_imaginary_hashed, pk, infinity_answer) ==
    raw_verify_hashed(self.signature, x_real_hashed, x_imaginary_hashed, pk, infinity_answer)

infinity_flags_both_high == <<u8_pow(2, 7), u8_pow(2, 7)>>

\* the two flags empty_signature adds to the first byte
infinity_flags == <<u8_pow(2, 6), u8_pow(2, 7)>>

\* Ok of the signature, or the panic of the overflow or of the unwrap
empty_signature ==
    LET first == u8_add(Ok(0), u8_add(infinity_flags[1], infinity_flags[2])) IN
       IF ~first.ok THEN Panic
       ELSE LET empty == [Zeros(BLS_SIG_BYTE_SIZE) EXCEPT ![1] = first.val]
                raw   == raw_from_bytes(empty)
            IN  IF raw.ok THEN Ok([signature |-> raw.val, is_empty |-> TRUE])
                ELSE Panic

as_raw(self) == self.signature

as_bytes_of_raw(self) == raw_as_bytes(self.signature)

as_bytes(self) ==
    IF self.is_empty THEN Zeros(96)
    ELSE raw_as_bytes(self.signature)

\* the whole of the bytes parsed as a raw signature
from_raw_bytes(bytes) ==
    LET raw_signature == raw_from_bytes(bytes) IN
       IF raw_signature.ok
       THEN Ok([signature |-> raw_signature.val, is_empty |-> FALSE])
       ELSE Error("BytesInvalid")

\* the loop of from_bytes from byte i on: what is returned, and how many
\* times the bytes were parsed on the way
RECURSIVE from_bytes_loop(_, _)
from_bytes_loop(bytes, i) ==
    IF i > Len(bytes) THEN [ret |-> empty_signature, parses |-> 0]
    ELSE IF bytes[i] /= 0 THEN [ret |-> from_raw_bytes(bytes), parses |-> 1]
    ELSE from_bytes_loop(bytes, i + 1)

from_bytes_first_byte(bytes) ==
    IF bytes /= <<>> /\ bytes[1] /= 0 THEN from_raw_bytes(bytes) ELSE empty_signature

from_bytes(bytes) == from_bytes_loop(bytes, 1).ret

\* the byte strings the tests of signature.rs build
TestBytes ==
    { construct_signature(a1, b1, c1, x1, a2, b2, c2, x2) :
        a1 \in BOOLEAN, b1 \in BOOLEAN, c1 \in BOOLEAN,
        x1 \in {Q_MINUS_ONE_HEX, <<0>>}, a2 \in {FALSE}, b2 \in {FALSE},
        c2 \in BOOLEAN, x2 \in {Q_MINUS_ONE_HEX, Q_HEX, <<1>>} }
    \cup { Zeros(BLS_SIG_BYTE_SIZE), Zeros(1), <<>>, <<192>> }

SigInit ==
    /\ build \in {"debug", "release"}
    /\ msg \in Msgs
    /\ domain \in Domains
    /\ keypair \in SecretKeys
    /\ signature = None
    /\ sig_bytes = None
    /\ from_ret = None
    /\ verdict = None
    /\ panicked = FALSE
    /\ raw_parses = 0
    /\ ClientIdle
    /\ RegistryIdle
    /\ SharedIdle
    /\ TopicIdle
    /\ CodecIdle
    /\ MacroIdle

\* Signature::new(msg, domain, &keypair.sk)
New ==
    /\ signature = None
    /\ sig_bytes = None
    /\ signature' = Some(new(msg, domain, keypair))
    /\ UNCHANGED <<build, msg, domain, keypair, sig_bytes, from_ret, verdict, panicked, raw_parses>>
    /\ UNCHANGED outsideSig

\* Signature::empty_signature()
EmptySignature ==
    /\ signature = None
    /\ sig_bytes = None
    /\ ~panicked
    /\ signature' = IF empty_signature.ok THEN Some(empty_signature.val) ELSE signature
    /\ panicked' = ~empty_signature.ok
    /\ UNCHANGED <<build, msg, domain, keypair, sig_bytes, from_ret, verdict, raw_parses>>
    /\ UNCHANGED outsideSig

\* signature.as_bytes(), as the SSZ encoding does
AsBytes ==
    /\ signature /= None
    /\ sig_bytes = None
    /\ sig_bytes' = Some(as_bytes(signature[1]))
    /\ UNCHANGED <<build, msg, domain, keypair, signature, from_ret, verdict, panicked, raw_parses>>
    /\ UNCHANGED outsideSig

\* bytes of a test's making
ConstructSignature ==
    /\ signature = None
    /\ sig_bytes = None
    /\ ~panicked
    /\ \E b \in TestBytes : sig_bytes' = Some(b)
    /\ UNCHANGED <<build, msg, domain, keypair, signature, from_ret, verdict, panicked, raw_parses>>
    /\ UNCHANGED outsideSig

\* Signature::from_bytes(&sig_bytes), as the SSZ decoding does
FromBytes ==
    /\ sig_bytes /= None
    /\ from_ret = None
    /\ ~panicked
    /\ from_ret' = IF from_bytes(sig_bytes[1]) = Panic THEN from_ret
                   ELSE Some(from_bytes(sig_bytes[1]))
    /\ panicked' = (from_bytes(sig_bytes[1]) = Panic)
    /\ raw_parses' = from_bytes_loop(sig_bytes[1], 1).parses
    /\ UNCHANGED <<build, msg, domain, keypair, signature, sig_bytes, verdict>>
    /\ UNCHANGED outsideSig

\* signature.verify(m, d, &pk)
Verify ==
    /\ signature /= None
    /\ verdict = None
    /\ \E m \in Msgs, d \in Domains, pk \in PublicKeys, infinity_answer \in BOOLEAN :
          verdict' = Some([entry |-> "verify",
                           accepts |-> verify(signature[1], m, d, pk, infinity_answer)])
    /\ UNCHANGED <<build, msg, domain, keypair, signature, sig_bytes, from_ret, panicked, raw_parses>>
    /\ UNCHANGED outsideSig

\* signature.verify_hashed(x_real_hashed, x_imaginary_hashed, &pk)
VerifyHashed ==
    /\ signature /= None
    /\ verdict = None
    /\ \E xr \in Hashed, xi \in Hashed, pk \in PublicKeys, infinity_answer \in BOOLEAN :
          verdict' = Some([entry |-> "verify_hashed",
                           accepts |-> verify_hashed(signature[1], xr, xi, pk, infinity_answer)])
    /\ UNCHANGED <<build, msg, domain, keypair, signature, sig_bytes, from_ret, panicked, raw_parses>>
    /\ UNCHANGED outsideSig

SigNext ==
    New \/ EmptySignature \/ AsBytes \/ ConstructSignature \/ FromBytes \/ Verify \/ VerifyHashed

SpecSignature == SigInit /\ [][SigNext]_vars

RoundTripped ==
    /\ signature /= None
    /\ sig_bytes = Some(as_bytes(signature[1]))
    /\ from_ret /= None

(***************************************************************************)
(* C17                                                                     *)
(***************************************************************************)
\* C17: for every signature s made by Signature::new and for the one made by
\* Signature::empty_signature, from_bytes(as_bytes(s)) succeeds and returns a
\* value equal to s, the is_empty flag included.
C17_SignatureByteRoundTrip ==
    RoundTripped => from_ret[1] = Ok(signature[1])

C17_EmptyRoundTripped ==
    /\ RoundTripped
    /\ signature[1].is_empty
    /\ sig_bytes[1] = Zeros(BLS_SIG_BYTE_SIZE)
    /\ from_ret[1] = Ok(signature[1])

C17_SignedRoundTripped ==
    /\ RoundTripped
    /\ signature[1] = new(<<42, 42>>, 0, 1)
    /\ sig_bytes[1][1] = c_flag_value + a_flag_value + 1
    /\ from_ret[1] = Ok(signature[1])

(***************************************************************************)
(* C18                                                                     *)
(***************************************************************************)
\* C18: the raw signature held by Signature::empty_signature() serializes to
\* exactly BLS_SIG_BYTE_SIZE (96) bytes, the first 2^6 + 2^7 = 192 and the
\* rest 0, and computing that first byte does not overflow u8.
C18_EmptyRawBytes ==
    /\ ~panicked
    /\ (signature /= None /\ signature[1].is_empty) =>
          LET sig_as_bytes == raw_as_bytes(as_raw(signature[1])) IN
             /\ Len(sig_as_bytes) = 96
             /\ sig_as_bytes[1] = 192
             /\ \A i \in 2..Len(sig_as_bytes) : sig_as_bytes[i] = 0

C18_EmptySignatureMade ==
    /\ signature /= None
    /\ signature[1].is_empty
    /\ signature[1].signature.infinity
    /\ build = "debug"

(***************************************************************************)
(* C20                                                                     *)
(***************************************************************************)
\* C20: a Signature whose is_empty flag is true is accepted by no
\* verification entry point: verify and verify_hashed both return false for
\* it, for every message and public key, whatever the raw verification of
\* the point at infinity returns.
C20_EmptyNeverAccepted ==
    (verdict /= None /\ signature[1].is_empty) => ~verdict[1].accepts

(***************************************************************************)
(* C21                                                                     *)
(***************************************************************************)
AllZero(bytes) == \A i \in 1..Len(bytes) : bytes[i] = 0

C21_ShortZeroSliceEmpty ==
    /\ from_ret /= None
    /\ sig_bytes[1] = <<0>>
    /\ from_ret[1].ok
    /\ from_ret[1].val.is_empty

(***************************************************************************)
(* The as_static_str attribute macro, src/common/as_static_str/src/lib.rs.  *)
(* The expansion is followed variant by variant: the closure that builds a  *)
(* match arm also pushes the arm's string onto `variants`, and the closure  *)
(* runs when the arms are spliced into the first impl block.                *)
(***************************************************************************)
MaxVariants == 3

Style == {"SameAsName", "Title", "Snake"}

UpperCase == "ABCDEFGHIJKLMNOPQRSTUVWXYZ"
LowerCase == "abcdefghijklmnopqrstuvwxyz"

CharAt(str, i) == SubSeq(str, i, i)

is_ascii_uppercase(c) == \E i \in 1..Len(UpperCase) : CharAt(UpperCase, i) = c

to_ascii_lowercase(c) ==
    IF is_ascii_uppercase(c)
    THEN CharAt(LowerCase, CHOOSE i \in 1..Len(UpperCase) : CharAt(UpperCase, i) = c)
    ELSE c

\* the fold of the Title and Snake styles over the characters from i on:
\* `sep` goes before an upper-case character that follows one that is not
RECURSIVE fold_chars(_, _, _, _, _, _)
fold_chars(ident, i, up, acc, sep, lower) ==
    IF i > Len(ident) THEN acc
    ELSE LET c  == CharAt(ident, i)
             a1 == IF is_ascii_uppercase(c) /\ ~up THEN acc \o sep ELSE acc
         IN  fold_chars(ident, i + 1, is_ascii_uppercase(c),
                        a1 \o (IF lower THEN to_ascii_lowercase(c) ELSE c), sep, lower)

variant_repr(st, ident) ==
    CASE st = "SameAsName" -> ident
      [] st = "Title"      -> fold_chars(ident, 1, TRUE, "", " ", FALSE)
      [] st = "Snake"      -> fold_chars(ident, 1, TRUE, "", "_", TRUE)

pushed_name(repr, ident) == ident

\* what the closure pushes onto `variants`
pushed(repr, ident) == repr

\* the style an argument `style = "..."` selects: Ok, or the panic
style_of(val) ==
    CASE val = "title"   -> Ok("Title")
      [] val = "snake"   -> Ok("Snake")
      [] val = "default" -> Ok("SameAsName")
      [] OTHER           -> Panic

VariantNames == { "Foo", "FooBar", "HTTPServer", "fooBar", "Foo_Bar" }

Enums ==
    { e \in UNION { [1..n -> VariantNames] : n \in 0..MaxVariants } :
        \A i, j \in 1..Len(e) : i /= j => e[i] /= e[j] }

Args == [variant_list : BOOLEAN, style : {None} \cup { Some(v) : v \in {"title", "snake", "default", "kebab"} }]

\* the generated as_static_str: the string of the first arm that matches
as_static_str(arm_list, ident) ==
    arm_list[CHOOSE i \in 1..Len(arm_list) :
                 /\ arm_list[i].variant = ident
                 /\ \A j \in 1..(i - 1) : arm_list[j].variant /= ident].repr

MacroInit ==
    /\ args \in Args
    /\ the_enum \in Enums
    /\ style = "SameAsName"
    /\ impl_variant_list = FALSE
    /\ variants = <<>>
    /\ arms = <<>>
    /\ variant_list = None
    /\ mpc = "args"
    /\ ClientIdle
    /\ RegistryIdle
    /\ SharedIdle
    /\ TopicIdle
    /\ CodecIdle
    /\ SigIdle

\* the loop over the attribute's arguments
ParseArgs ==
    /\ mpc = "args"
    /\ impl_variant_list' = args.variant_list
    /\ IF args.style = None
       THEN style' = style /\ mpc' = "arms"
       ELSE IF style_of(args.style[1]).ok
            THEN style' = style_of(args.style[1]).val /\ mpc' = "arms"
            ELSE style' = style /\ mpc' = "panicked"
    /\ UNCHANGED <<args, the_enum, variants, arms, variant_list>>
    /\ UNCHANGED outsideMacro

\* the closure, run for the next variant as the arms are spliced into `gen`
PerVariantName ==
    /\ mpc = "arms"
    /\ Len(arms) < Len(the_enum)
    /\ LET variant_name == the_enum[Len(arms) + 1]
           repr         == variant_repr(style, variant_name)
       IN  /\ variants' = Append(variants, pushed(repr, variant_name))
           /\ arms' = Append(arms, [variant |-> variant_name, repr |-> repr])
    /\ UNCHANGED <<args, the_enum, style, impl_variant_list, variant_list, mpc>>
    /\ UNCHANGED outsideMacro

\* `gen` is complete once every arm is in place
Gen ==
    /\ mpc = "arms"
    /\ Len(arms) = Len(the_enum)
    /\ mpc' = "gen"
    /\ UNCHANGED <<args, the_enum, style, impl_variant_list, variants, arms, variant_list>>
    /\ UNCHANGED outsideMacro

\* the impl block of variants_as_static_str, when asked for
ImplVariantList ==
    /\ mpc = "gen"
    /\ variant_list' = IF impl_variant_list THEN Some(variants) ELSE variant_list
    /\ mpc' = "done"
    /\ UNCHANGED <<args, the_enum, style, impl_variant_list, variants, arms>>
    /\ UNCHANGED outsideMacro

MacroNext == ParseArgs \/ PerVariantName \/ Gen \/ ImplVariantList

SpecMacro == MacroInit /\ [][MacroNext]_vars

(***************************************************************************)
(* C19                                                                     *)
(***************************************************************************)
\* C19: for an enum annotated with as_static_str(VariantList),
\* variants_as_static_str() has one entry per declared variant, in
\* declaration order, and its i-th entry is the string as_static_str()
\* returns for a value of the i-th variant, under every style.
C19_VariantListMatchesAsStaticStr ==
    /\ (mpc = "done" /\ args.variant_list) => variant_list /= None
    /\ variant_list /= None =>
          /\ Len(variant_list[1]) = Len(the_enum)
          /\ \A i \in 1..Len(the_enum) :
                 variant_list[1][i] = as_static_str(arms, the_enum[i])

C19_SnakeListGenerated ==
    /\ variant_list = Some(<<"httpserver", "foo_bar", "foo_bar">>)
    /\ the_enum = <<"HTTPServer", "FooBar", "fooBar">>
    /\ style = "Snake"

C19_TitleListGenerated ==
    /\ variant_list = Some(<<"Foo Bar", "HTTPServer", "Foo_ Bar">>)
    /\ the_enum = <<"FooBar", "HTTPServer", "Foo_Bar">>
    /\ style = "Title"

====
